---- MODULE Spec2Model ----
(***************************************************************************)
(* Bronze / Silver / Gold vehicle-telemetry pipeline.                      *)
(*                                                                         *)
(* The state is the content of the three storage areas, the wall clock     *)
(* that names the output files, the outcome of the last call, and the      *)
(* process that runs an entry point of the orchestrator.  The              *)
(* SQL of the transforms is modelled relationally: a WHERE is a filter, a  *)
(* window function is a choice among the rows the ORDER BY does not        *)
(* separate, an ORDER BY yields every order compatible with its key.       *)
(*                                                                         *)
(* Nullable values are 0/1-length tuples: None is SQL NULL, Some(v) is v.  *)
(* Strings are tuples of one-character strings, so that TRIM is computed.  *)
(***************************************************************************)
EXTENDS Integers, Sequences, FiniteSets, Bags, TLC

VARIABLES bronze, silver, gold, now, result, run

vars == <<bronze, silver, gold, now, result, run>>

\* ------------------------------------------------------------------ values

None == <<>>

Some(v) == <<v>>

IsNull(x) == x = None

Val(x) == x[1]

Max(S) == CHOOSE x \in S : \A y \in S : y <= x

\* ------------------------------------------------------------------ bounds

\* Raw rows in the Bronze area of the cleaning specification.
MaxSilverRows == 2

\* Raw rows in the Bronze area of the VinLastState specification.
MaxGoldRows == 3

\* Raw rows in the Bronze area of the fastest-per-hour specification.
MaxTopKRows == 12

\* Messages in one batch handed to the Bronze writer by the pipeline.
MaxBatch == 2

\* The last second the clock reaches.
MaxNow == 1

\* ------------------------------------------------------- program constants

MinVelocity == 0

MaxVelocity == 500

MaxLatitude == 90

MaxLongitude == 180

MsPerHour == 3600000

HoursPerDay == 24

MsPerDay == MsPerHour * HoursPerDay

\* --------------------------------------------------------------- bag tools

RECURSIVE BagsUpTo(_, _)
\* Every bag of at most n elements of D.
BagsUpTo(D, n) ==
    IF n = 0 THEN {EmptyBag}
    ELSE LET smaller == BagsUpTo(D, n - 1)
         IN  smaller \cup {b (+) SetToBag({d}) : b \in smaller, d \in D}

RECURSIVE BagToSeq(_)
\* One enumeration of a bag (the order is of no consequence to its users).
BagToSeq(B) ==
    IF B = EmptyBag THEN <<>>
    ELSE LET d == CHOOSE x \in BagToSet(B) : TRUE
         IN  <<d>> \o BagToSeq(B (-) SetToBag({d}))

RECURSIVE SeqToBag(_)
SeqToBag(s) ==
    IF s = <<>> THEN EmptyBag
    ELSE SetToBag({Head(s)}) (+) SeqToBag(Tail(s))

MapSeq(s, F(_)) == [i \in 1..Len(s) |-> F(s[i])]

RECURSIVE DescOrders(_)
\* ORDER BY k DESC over a bag of [k, row] pairs: every sequence of the rows
\* in which k never increases.  Rows with equal k come in any order.
DescOrders(B) ==
    IF B = EmptyBag THEN {<<>>}
    ELSE LET S == BagToSet(B)
             m == Max({x.k : x \in S})
         IN  UNION {{<<x.row>> \o t : t \in DescOrders(B (-) SetToBag({x}))}
                    : x \in {y \in S : y.k = m}}

\* ---------------------------------------------------------------- strings

Space == " "

RECURSIVE LTrim(_)
LTrim(s) == IF s # <<>> /\ Head(s) = Space THEN LTrim(Tail(s)) ELSE s

RECURSIVE RTrim(_)
RTrim(s) ==
    IF s # <<>> /\ s[Len(s)] = Space THEN RTrim(SubSeq(s, 1, Len(s) - 1)) ELSE s

\* SQL TRIM(x): spaces removed at both ends; TRIM(NULL) is NULL.
Trim(x) == IF IsNull(x) THEN None ELSE Some(LTrim(RTrim(Val(x))))

Str(s) == Some(s)

\* ------------------------------------------------------------ Bronze rows

\* pd.to_datetime(timestamp, unit='ms', utc=True), as date / hour / rest.
ToDatetime(ts) ==
    [date |-> ts \div MsPerDay,
     hour |-> (ts % MsPerDay) \div MsPerHour,
     ms   |-> ts % MsPerHour]

\* The position of a datetime on the time line (what ORDER BY compares).
DatetimeKey(dt) == dt.date * MsPerDay + dt.hour * MsPerHour + dt.ms

\* A VehicleMessage as fetch_vehicle_messages returns it (the seatbelt state
\* is left null, the fetch timestamp is that of the first second).
Message(vin, mf, model, year, v, lat, lon, ts, door, wipers, gear) ==
    [vin |-> vin, manufacturer |-> mf, model |-> model, year |-> year,
     velocity |-> v, latitude |-> lat, longitude |-> lon, timestamp |-> ts,
     frontLeftDoorState |-> door, wipersState |-> wipers,
     gearPosition |-> gear, driverSeatbeltState |-> None,
     fetch_timestamp |-> 0]

\* pd.DataFrame(data): a key a message lacks is a missing cell (NULL).
Cell(m, col) == IF col \in DOMAIN m THEN m[col] ELSE None

\* The columns of the DataFrame: the keys at least one message has.
Columns(data) == UNION {DOMAIN data[i] : i \in 1..Len(data)}

\* The columns the COPY of write_raw_data selects by name.
RequiredColumns ==
    {"vin", "manufacturer", "year", "model", "latitude", "longitude",
     "timestamp", "velocity", "frontLeftDoorState", "wipersState",
     "gearPosition", "driverSeatbeltState", "fetch_timestamp"}

\* The row write_raw_data stores for a message.
RawRecord(m, batch_id) ==
    LET dt == ToDatetime(m.timestamp)
    IN  [vin |-> Cell(m, "vin"), manufacturer |-> m.manufacturer, year |-> m.year,
         model |-> m.model, latitude |-> m.latitude,
         longitude |-> m.longitude, timestamp |-> m.timestamp,
         message_datetime |-> dt, velocity |-> m.velocity,
         front_left_door_state |-> m.frontLeftDoorState,
         wipers_state |-> m.wipersState,
         gear_position |-> m.gearPosition,
         driver_seatbelt_state |-> m.driverSeatbeltState,
         fetch_timestamp |-> m.fetch_timestamp,
         batch_id |-> batch_id,
         partition_date |-> dt.date, partition_hour |-> dt.hour]

\* ------------------------------------------------------- Silver (cleaning)

\* CASE WHEN gear_position = 'NEUTRAL' THEN 0 WHEN ... 'REVERSE' THEN -1
\* ELSE NULL END
GearPositionNumeric(g) ==
    IF IsNull(g) THEN None
    ELSE IF Val(g) = "NEUTRAL" THEN Some(0)
    ELSE IF Val(g) = "REVERSE" THEN Some(-1)
    ELSE None

HasValidCoordinates_LatitudeOnly(lat, lon) ==
    /\ ~IsNull(lat)
    /\ ~IsNull(lon)
    /\ Val(lat) >= -MaxLatitude /\ Val(lat) <= MaxLatitude

\* latitude, longitude both present and within +-90 / +-180.
HasValidCoordinates(lat, lon) ==
    /\ ~IsNull(lat)
    /\ ~IsNull(lon)
    /\ Val(lat) >= -MaxLatitude /\ Val(lat) <= MaxLatitude
    /\ Val(lon) >= -MaxLongitude /\ Val(lon) <= MaxLongitude

HasValidVelocity_Exclusive(v) ==
    ~IsNull(v) /\ Val(v) > MinVelocity /\ Val(v) < MaxVelocity

\* velocity present and within [0, 500].
HasValidVelocity(v) ==
    ~IsNull(v) /\ Val(v) >= MinVelocity /\ Val(v) <= MaxVelocity

\* One row of the cleaned_data CTE.
CleanRecord(r, processing_timestamp) ==
    [vin |-> r.vin,
     manufacturer |-> Trim(r.manufacturer),
     year |-> r.year,
     model |-> r.model,
     latitude |-> r.latitude,
     longitude |-> r.longitude,
     timestamp |-> r.timestamp,
     message_datetime |-> r.message_datetime,
     velocity |-> r.velocity,
     front_left_door_state |-> r.front_left_door_state,
     wipers_state |-> r.wipers_state,
     gear_position_numeric |-> GearPositionNumeric(r.gear_position),
     gear_position_original |-> r.gear_position,
     driver_seatbelt_state |-> r.driver_seatbelt_state,
     fetch_timestamp |-> r.fetch_timestamp,
     batch_id |-> r.batch_id,
     partition_date |-> r.partition_date,
     partition_hour |-> r.partition_hour,
     has_valid_coordinates |-> HasValidCoordinates(r.latitude, r.longitude),
     has_valid_velocity |-> HasValidVelocity(r.velocity),
     silver_processing_timestamp |-> processing_timestamp]

\* ---------------------------------------------------------------- storage

\* A file of a storage area, named by the second it was written in.
File(kind, rows) == [kind |-> kind, name |-> now, mtime |-> now, rows |-> rows]

\* Writing a file replaces the file of the same name, if there is one.
WriteFile(dir, f) ==
    {g \in dir : ~(g.kind = f.kind /\ g.name = f.name)} \cup {f}

NoResult == [op |-> "none", status |-> "none", path |-> None]

\* No process has been started.
NoRun == [pc |-> "idle"]

Outcome(op, status, path) == [op |-> op, status |-> status, path |-> path]

WriteRawData_Append(data, batch_id) ==
    \/ /\ data = <<>>
       /\ result' = Outcome("write_raw_data", "error", None)
       /\ UNCHANGED <<bronze, silver, gold, now>>
    \/ /\ data # <<>>
       /\ ~(RequiredColumns \subseteq Columns(data))
       /\ bronze' = EmptyBag
       /\ result' = Outcome("write_raw_data", "error", None)
       /\ UNCHANGED <<silver, gold, now>>
    \/ /\ data # <<>>
       /\ RequiredColumns \subseteq Columns(data)
       /\ bronze' = bronze (+)
             SeqToBag([i \in 1..Len(data) |-> RawRecord(data[i], batch_id)])
       /\ result' = Outcome("write_raw_data", "success", Some("vehicle_messages"))
       /\ UNCHANGED <<silver, gold, now>>

\* BronzeWriter.write_raw_data(data, batch_id)
WriteRawData(data, batch_id) ==
    \/ /\ data = <<>>
       /\ result' = Outcome("write_raw_data", "error", None)
       /\ UNCHANGED <<bronze, silver, gold, now>>
    \/ /\ data # <<>>
       /\ ~(RequiredColumns \subseteq Columns(data))
       /\ bronze' = EmptyBag
       /\ result' = Outcome("write_raw_data", "error", None)
       /\ UNCHANGED <<silver, gold, now>>
    \/ /\ data # <<>>
       /\ RequiredColumns \subseteq Columns(data)
       /\ bronze' = SeqToBag([i \in 1..Len(data) |-> RawRecord(data[i], batch_id)])
       /\ result' = Outcome("write_raw_data", "success", Some("vehicle_messages"))
       /\ UNCHANGED <<silver, gold, now>>

\* datetime.utcnow() moves on to the next second.
Tick ==
    /\ now < MaxNow
    /\ now' = now + 1
    /\ UNCHANGED <<bronze, silver, gold, result>>

SilverWhere_NotNullOnly(c) == ~IsNull(c.vin)

SilverWhere_DropInvalid(c) ==
    ~IsNull(c.vin) /\ Trim(c.vin) # Some(<<>>) /\ c.has_valid_velocity

\* WHERE vin IS NOT NULL AND TRIM(vin) <> ''
SilverWhere(c) == ~IsNull(c.vin) /\ Trim(c.vin) # Some(<<>>)

\* The rows the COPY of process_to_silver can write for a Bronze content:
\* the cleaned rows that pass the WHERE, ORDER BY message_datetime DESC.
CleanedSnapshots(rawBag, processing_timestamp) ==
    LET raw     == BagToSeq(rawBag)
        cleaned == [i \in 1..Len(raw) |->
                       CleanRecord(raw[i], processing_timestamp)]
        kept    == SelectSeq(cleaned, SilverWhere)
        keyed   == [i \in 1..Len(kept) |->
                       [k |-> DatetimeKey(kept[i].message_datetime),
                        row |-> kept[i]]]
    IN  DescOrders(SeqToBag(keyed))

BronzeIsEmpty_Never(rawBag) == FALSE

\* SELECT COUNT(*) over the Bronze files gives 0 (or finds no file).
BronzeIsEmpty(rawBag) == rawBag = EmptyBag

\* SilverProcessor.process_to_silver
ProcessToSilver ==
    \/ /\ BronzeIsEmpty(bronze)
       /\ result' = Outcome("process_to_silver", "error", None)
       /\ UNCHANGED <<bronze, silver, gold, now>>
    \/ /\ ~BronzeIsEmpty(bronze)
       /\ \E rows \in CleanedSnapshots(bronze, now) :
            /\ silver' = WriteFile(silver, File("vehicle_messages_cleaned", rows))
            /\ result' = Outcome("process_to_silver", "success", Some(now))
       /\ UNCHANGED <<bronze, gold, now>>

\* ------------------------------------------ inputs of the cleaning checks

DefaultBatch == "batch"

Vins == {None, Str(<<>>), Str(<<Space>>), Str(<<"A">>), Str(<<Space, "B">>)}

Velocities ==
    {None, Some(MinVelocity - 1), Some(MinVelocity), Some(MaxVelocity),
     Some(MaxVelocity + 1)}

Latitudes ==
    {None, Some(-MaxLatitude - 1), Some(-MaxLatitude), Some(MaxLatitude),
     Some(MaxLatitude + 1)}

Longitudes ==
    {None, Some(-MaxLongitude - 1), Some(-MaxLongitude), Some(MaxLongitude),
     Some(MaxLongitude + 1)}

\* Velocity and position vary one at a time around a valid reading, plus the
\* reading where all three are out of range.
Readings ==
    {<<v, Some(0), Some(0)>> : v \in Velocities}
    \cup {<<Some(MinVelocity), la, Some(0)>> : la \in Latitudes}
    \cup {<<Some(MinVelocity), Some(0), lo>> : lo \in Longitudes}
    \cup {<<Some(MaxVelocity + 1), Some(MaxLatitude + 1), Some(MaxLongitude + 1)>>,
          <<None, None, None>>}

SilverMessage(vin, reading, ts, manufacturer, gear) ==
    Message(vin, manufacturer, Str(<<"M">>), Some(2020), reading[1],
            reading[2], reading[3], ts, None, None, gear)

SilverMessages ==
    {SilverMessage(vin, rd, 100, Str(<<"X">>), Some("NEUTRAL")) :
        vin \in Vins, rd \in Readings}
    \cup {SilverMessage(Str(<<"A">>), <<Some(MinVelocity), Some(0), Some(0)>>,
                        ts, mf, g) :
            ts \in {100, MsPerHour + 5},
            mf \in {None, Str(<<Space, "X", Space>>)},
            g \in {None, Some("REVERSE"), Some("DRIVE")}}

SilverInputs ==
    BagsUpTo({RawRecord(m, DefaultBatch) : m \in SilverMessages}, MaxSilverRows)

InitSilver ==
    /\ bronze \in SilverInputs
    /\ silver = {}
    /\ gold = {}
    /\ now = 0
    /\ result = NoResult
    /\ run = NoRun

NextSilver == ProcessToSilver /\ UNCHANGED run

\* The cleaning transform applied to every bounded Bronze content.
SpecSilver == InitSilver /\ [][NextSilver]_vars

\* ---------------------------------------------------- Gold (VinLastState)

RECURSIVE SetToSeq(_)
\* One enumeration of a finite set.
SetToSeq(S) ==
    IF S = {} THEN <<>>
    ELSE LET x == CHOOSE y \in S : TRUE IN <<x>> \o SetToSeq(S \ {x})

\* WHERE vin IS NOT NULL
HasVin(c) == ~IsNull(c.vin)

HasDoorState_AnyRow(c) == ~IsNull(c.vin)

\* WHERE vin IS NOT NULL AND front_left_door_state IS NOT NULL
HasDoorState(c) == ~IsNull(c.vin) /\ ~IsNull(c.front_left_door_state)

\* WHERE vin IS NOT NULL AND wipers_state IS NOT NULL
HasWipersState(c) == ~IsNull(c.vin) /\ ~IsNull(c.wipers_state)

\* PARTITION BY vin: the keys of the partitions.
PartitionKeys(rows) == {rows[i].vin : i \in 1..Len(rows)}

\* OVER (PARTITION BY vin ORDER BY message_datetime DESC): the orders the
\* window may give to the partition of vin v.
PartitionOrders(rows, v) ==
    LET part == SelectSeq(rows, LAMBDA c : c.vin = v)
    IN  DescOrders(SeqToBag([i \in 1..Len(part) |->
            [k |-> DatetimeKey(part[i].message_datetime), row |-> part[i]]]))

\* Every way the window can order all partitions: one order per vin.
WindowOrders(rows) ==
    LET V == PartitionKeys(rows)
    IN  {w \in [V -> UNION {PartitionOrders(rows, v) : v \in V}] :
            \A v \in V : w[v] \in PartitionOrders(rows, v)}

FirstValue_CurrentRow(ord, i) == ord[i]

\* FIRST_VALUE(x) OVER (... ROWS UNBOUNDED PRECEDING) at the i-th row of an
\* ordered partition: the first row of the frame.
FirstValue(ord, i) == ord[1]

RankOne_Oldest(ord) == {Len(ord)}

\* WHERE lm.rn = 1, rn being ROW_NUMBER() in the ordered partition.
RankOne(ord) == {i \in 1..Len(ord) : i = 1}

\* latest_messages, WHERE lm.rn = 1.
LatestMessages(w) ==
    UNION {{[vin |-> v, rn |-> i, row |-> w[v][i]] : i \in RankOne(w[v])}
           : v \in DOMAIN w}

\* last_door_state: SELECT DISTINCT vin, FIRST_VALUE(front_left_door_state)
LastDoorState(w) ==
    UNION {{[vin |-> v,
             value |-> FirstValue(w[v], i).front_left_door_state]
            : i \in 1..Len(w[v])} : v \in DOMAIN w}

\* last_wipers_state: SELECT DISTINCT vin, FIRST_VALUE(wipers_state)
LastWipersState(w) ==
    UNION {{[vin |-> v, value |-> FirstValue(w[v], i).wipers_state]
            : i \in 1..Len(w[v])} : v \in DOMAIN w}

\* LEFT JOIN t ON lm.vin = t.vin: the values joined to vin v, NULL if none.
LeftJoin(t, v) ==
    IF \E x \in t : x.vin = v THEN {x.value : x \in {y \in t : y.vin = v}}
    ELSE {None}

\* One row of the report.
ReportRow(c, door, wipers, processing_timestamp) ==
    [vin |-> c.vin,
     last_reported_timestamp |-> c.timestamp,
     last_message_datetime |-> c.message_datetime,
     manufacturer |-> c.manufacturer,
     year |-> c.year,
     model |-> c.model,
     last_latitude |-> c.latitude,
     last_longitude |-> c.longitude,
     last_velocity |-> c.velocity,
     last_front_left_door_state |-> door,
     last_wipers_state |-> wipers,
     report_generated_timestamp |-> processing_timestamp]

\* The joined rows for one ordering of the three windows, in every order
\* ORDER BY lm.message_datetime DESC allows.
JoinedReports(lmW, doorW, wipersW, processing_timestamp) ==
    LET lds == LastDoorState(doorW)
        lws == LastWipersState(wipersW)
        joined ==
            UNION {{<<lm, d, ws>> : d \in LeftJoin(lds, lm.vin),
                                    ws \in LeftJoin(lws, lm.vin)}
                   : lm \in LatestMessages(lmW)}
        js == SetToSeq(joined)
    IN  DescOrders(SeqToBag([i \in 1..Len(js) |->
            [k |-> DatetimeKey(js[i][1].row.message_datetime),
             row |-> ReportRow(js[i][1].row, js[i][2], js[i][3],
                               processing_timestamp)]]))

\* The rows the COPY of generate_vin_last_state_report can write for the
\* rows of a Silver file.
VinLastStateReports(rows, processing_timestamp) ==
    UNION {JoinedReports(lmW, doorW, wipersW, processing_timestamp) :
              lmW \in WindowOrders(SelectSeq(rows, HasVin)),
              doorW \in WindowOrders(SelectSeq(rows, HasDoorState)),
              wipersW \in WindowOrders(SelectSeq(rows, HasWipersState))}

\* GoldReporter.generate_vin_last_state_report(silver_file_path)
GenerateVinLastStateReport(path) ==
    \/ /\ ~\E f \in silver : Some(f.name) = path
       /\ result' = Outcome("generate_vin_last_state_report", "error", None)
       /\ UNCHANGED <<bronze, silver, gold, now>>
    \/ \E f \in silver :
          /\ Some(f.name) = path
          /\ \E rows \in VinLastStateReports(f.rows, now) :
                gold' = WriteFile(gold, File("vin_last_state", rows))
          /\ result' = Outcome("generate_vin_last_state_report", "success",
                               Some(now))
          /\ UNCHANGED <<bronze, silver, now>>

\* --------------------------------------- inputs of the VinLastState checks

\* The velocity goes with the door state and the year with the wipers
\* state, so that two rows of equal time differ in their base fields.
VelocityOf(door) ==
    IF IsNull(door) THEN None
    ELSE IF Val(door) = "LOCKED" THEN Some(MinVelocity) ELSE Some(MaxVelocity)

YearOf(wipers) ==
    IF IsNull(wipers) THEN None
    ELSE IF Val(wipers) THEN Some(2021) ELSE Some(2022)

GoldMessage(vin, ts, door, wipers) ==
    Message(vin, Str(<<"X">>), Str(<<"M">>), YearOf(wipers), VelocityOf(door),
            Some(0), Some(0), ts, door, wipers, Some("NEUTRAL"))

\* Readings of vin A at three times (door and wipers each null or not,
\* two door states at one time), two readings of vin B, one without vin.
GoldMessages ==
    {GoldMessage(Str(<<"A">>), 100, d, w) :
        d \in {None, Some("LOCKED")}, w \in {None, Some(TRUE)}}
    \cup {GoldMessage(Str(<<"A">>), 200, d, None) :
            d \in {None, Some("LOCKED"), Some("UNLOCKED")}}
    \cup {GoldMessage(Str(<<"A">>), 300, None, None),
          GoldMessage(Str(<<"A">>), 300, Some("UNLOCKED"), Some(TRUE))}
    \cup {GoldMessage(Str(<<"B">>), 200, d, Some(FALSE)) :
            d \in {None, Some("UNLOCKED")}}
    \cup {GoldMessage(None, 300, Some("LOCKED"), Some(TRUE))}

GoldInputs ==
    BagsUpTo({RawRecord(m, DefaultBatch) : m \in GoldMessages}, MaxGoldRows)

InitGold ==
    /\ bronze \in GoldInputs
    /\ silver = {}
    /\ gold = {}
    /\ now = 0
    /\ result = NoResult
    /\ run = NoRun

NextGold ==
    \/ ProcessToSilver /\ UNCHANGED run
    \/ \E path \in 0..MaxNow :
          GenerateVinLastStateReport(Some(path)) /\ UNCHANGED run

\* The VinLastState report of the cleaned snapshot of every bounded Bronze
\* content.
SpecGold == InitGold /\ [][NextGold]_vars

\* ------------------------------------------- Gold (fastest per hour)
\* GoldReporter.fastest_vehicles_per_hour_report is called by the
\* orchestrator; its body follows section 4.3 of the specification.

\* Rows emitted per (date, hour) bucket.
TopK == 10

Min(a, b) == IF a <= b THEN a ELSE b

\* The (calendar date, hour of day) bucket of a cleaned row.
HourBucket(c) == <<c.message_datetime.date, c.message_datetime.hour>>

\* Only rows with a velocity take part in the ranking.
HasVelocity(c) == ~IsNull(c.velocity)

TopRows_All(ord) == ord

\* The first TopK rows of a ranked bucket.
TopRows(ord) == SubSeq(ord, 1, Min(TopK, Len(ord)))

FastestRow(c, processing_timestamp) ==
    [report_date |-> c.message_datetime.date,
     report_hour |-> c.message_datetime.hour,
     vin |-> c.vin,
     velocity |-> c.velocity,
     message_datetime |-> c.message_datetime,
     report_generated_timestamp |-> processing_timestamp]

\* The rankings of bucket b: its rows by velocity descending, rows of equal
\* velocity in any order, cut to TopK.
BucketRankings(rows, b, processing_timestamp) ==
    LET part == SelectSeq(rows, LAMBDA c : HasVelocity(c) /\ HourBucket(c) = b)
        ords == DescOrders(SeqToBag([i \in 1..Len(part) |->
                    [k |-> Val(part[i].velocity),
                     row |-> FastestRow(part[i], processing_timestamp)]]))
    IN  {TopRows(o) : o \in ords}

RECURSIVE BucketBlocks(_, _, _)
\* The report: the rankings of the buckets, one bucket after the other, the
\* buckets in any order.
BucketBlocks(rows, buckets, processing_timestamp) ==
    IF buckets = {} THEN {<<>>}
    ELSE UNION {{head \o rest :
                    head \in BucketRankings(rows, b, processing_timestamp),
                    rest \in BucketBlocks(rows, buckets \ {b},
                                          processing_timestamp)}
                : b \in buckets}

FastestPerHourReports(rows, processing_timestamp) ==
    LET ranked == SelectSeq(rows, HasVelocity)
    IN  BucketBlocks(rows,
                     {HourBucket(ranked[i]) : i \in 1..Len(ranked)},
                     processing_timestamp)

\* GoldReporter.fastest_vehicles_per_hour_report(silver_file_path)
FastestVehiclesPerHourReport(path) ==
    \/ /\ ~\E f \in silver : Some(f.name) = path
       /\ result' = Outcome("fastest_vehicles_per_hour_report", "error", None)
       /\ UNCHANGED <<bronze, silver, gold, now>>
    \/ \E f \in silver :
          /\ Some(f.name) = path
          /\ \E rows \in FastestPerHourReports(f.rows, now) :
                gold' = WriteFile(gold, File("fastest_vehicles_per_hour", rows))
          /\ result' = Outcome("fastest_vehicles_per_hour_report", "success",
                               Some(now))
          /\ UNCHANGED <<bronze, silver, now>>

\* ------------------------------------- inputs of the fastest-per-hour checks

TopKMessage(ts, v) ==
    Message(Str(<<"A">>), Str(<<"X">>), Str(<<"M">>), Some(2020), v, Some(0),
            Some(0), ts, None, None, Some("NEUTRAL"))

\* Four readings in the first hour (one without velocity), two in the next.
TopKMessages ==
    {TopKMessage(100, None), TopKMessage(200, Some(10)),
     TopKMessage(300, Some(20)), TopKMessage(400, Some(30)),
     TopKMessage(MsPerHour + 100, None), TopKMessage(MsPerHour + 200, Some(20))}

TopKInputs ==
    BagsUpTo({RawRecord(m, DefaultBatch) : m \in TopKMessages}, MaxTopKRows)

InitTopK ==
    /\ bronze \in TopKInputs
    /\ silver = {}
    /\ gold = {}
    /\ now = 0
    /\ result = NoResult
    /\ run = NoRun

NextTopK ==
    \/ ProcessToSilver /\ UNCHANGED run
    \/ \E path \in 0..MaxNow :
          FastestVehiclesPerHourReport(Some(path)) /\ UNCHANGED run

\* The fastest-per-hour report of the cleaned snapshot of every bounded
\* Bronze content.
SpecTopK == InitTopK /\ [][NextTopK]_vars

\* ------------------------------------------------- Gold (pattern scan)
\* GoldReporter.sql_violating_messages_report is called by the orchestrator
\* with the columns and the patterns below; its body follows section 4.4
\* of the specification.

\* Raw rows in the Bronze area of the pattern-scan specification.
MaxScanRows == 2

\* One character of a pattern.
Lit(c) == [ch |-> c, star |-> FALSE]

\* One character of a pattern, repeated zero or more times.
Star(c) == [ch |-> c, star |-> TRUE]

\* A pattern that is a plain word.
Word(s) == [i \in 1..Len(s) |-> Lit(s[i])]

Backslash == "\\"

\* columns=["vin", "manufacturer", "model"]
ScanColumns == <<"vin", "manufacturer", "model">>

\* regex_list: ; -- /\\* \\*/ DROP SELECT INSERT UPDATE DELETE.  In the
\* third and the fourth the star applies to the backslash.
RegexList ==
    <<Word(<<";">>),
      Word(<<"-", "-">>),
      <<Lit("/"), Star(Backslash)>>,
      <<Star(Backslash), Lit("/")>>,
      Word(<<"D", "R", "O", "P">>),
      Word(<<"S", "E", "L", "E", "C", "T">>),
      Word(<<"I", "N", "S", "E", "R", "T">>),
      Word(<<"U", "P", "D", "A", "T", "E">>),
      Word(<<"D", "E", "L", "E", "T", "E">>)>>

RECURSIVE MatchAt(_, _, _)
\* The pattern p matches the string s from position i on.
MatchAt(p, s, i) ==
    IF p = <<>> THEN TRUE
    ELSE IF Head(p).star
         THEN \/ MatchAt(Tail(p), s, i)
              \/ i <= Len(s) /\ s[i] = Head(p).ch /\ MatchAt(p, s, i + 1)
         ELSE i <= Len(s) /\ s[i] = Head(p).ch /\ MatchAt(Tail(p), s, i + 1)

RegexpMatches_WholeString(x, p) == ~IsNull(x) /\ MatchAt(p, Val(x), 1)

\* The string form of the value x matches p somewhere; NULL matches nothing.
RegexpMatches(x, p) ==
    ~IsNull(x) /\ \E i \in 1..(Len(Val(x)) + 1) : MatchAt(p, Val(x), i)

\* The columns of r that match at least one pattern.
ViolatingColumns(r) ==
    {ScanColumns[j] : j \in {k \in 1..Len(ScanColumns) :
        \E n \in 1..Len(RegexList) : RegexpMatches(r[ScanColumns[k]], RegexList[n])}}

\* A row of the report: the raw record and one column that matches.
ViolatingRow(r, col) == [record |-> r, violating_column |-> col]

RECURSIVE Annotations(_)
\* The rows of the report for a sequence of raw records: the records with
\* a matching column, each with one such column.
Annotations(raw) ==
    IF raw = <<>> THEN {<<>>}
    ELSE LET cols == ViolatingColumns(Head(raw))
             rest == Annotations(Tail(raw))
         IN  IF cols = {} THEN rest
             ELSE {<<ViolatingRow(Head(raw), c)>> \o t : c \in cols, t \in rest}

\* The reports the scan can write for a Bronze content.
ViolatingMessagesReports(rawBag) == Annotations(BagToSeq(rawBag))

\* GoldReporter.sql_violating_messages_report(bronze_file_path,
\* gold_file_path, columns, regex_list)
SqlViolatingMessagesReport ==
    \/ /\ bronze = EmptyBag
       /\ result' = Outcome("sql_violating_messages_report", "error", None)
       /\ UNCHANGED <<bronze, silver, gold, now>>
    \/ /\ bronze # EmptyBag
       /\ \E rows \in ViolatingMessagesReports(bronze) :
             gold' = WriteFile(gold, File("sql_violating_messages", rows))
       /\ result' = Outcome("sql_violating_messages_report", "success",
                            Some(now))
       /\ UNCHANGED <<bronze, silver, now>>

\* --------------------------------------- inputs of the pattern-scan checks

ScanMessage(vin, manufacturer, model) ==
    Message(vin, manufacturer, model, Some(2020), Some(MinVelocity), Some(0),
            Some(0), 100, None, None, Some("NEUTRAL"))

DropTable ==
    <<"D", "R", "O", "P", " ", "T", "A", "B", "L", "E", " ",
      "u", "s", "e", "r", "s", ";">>

\* Clean records, records that match in one column (a keyword, a
\* separator, a comment marker, a single slash), in two columns, and
\* near misses (a single dash, a keyword cut short, a null vin).
ScanMessages ==
    {ScanMessage(Str(<<"A">>), Str(<<"X">>), Str(<<"M">>)),
     ScanMessage(Str(<<"A">>), Str(DropTable), Str(<<"M">>)),
     ScanMessage(Str(<<"A", "-", "-">>), Str(<<"X">>), Str(<<"M">>)),
     ScanMessage(Str(<<"A">>), Str(<<"X">>), Str(<<"M", "/", "*">>)),
     ScanMessage(Str(<<"A">>), Str(<<"X">>), Str(<<"M", "/">>)),
     ScanMessage(Str(<<"B", ";">>), Str(<<"X">>),
                 Str(<<"S", "E", "L", "E", "C", "T">>)),
     ScanMessage(Str(<<"A", "-", "B">>), Str(<<"D", "R", "O">>), Str(<<"M">>)),
     ScanMessage(None, None, Str(<<"*">>)),
     ScanMessage(None, Str(<<"X", "*", "/">>), None)}

ScanInputs ==
    BagsUpTo({RawRecord(m, DefaultBatch) : m \in ScanMessages}, MaxScanRows)

InitScan ==
    /\ bronze \in ScanInputs
    /\ silver = {}
    /\ gold = {}
    /\ now = 0
    /\ result = NoResult
    /\ run = NoRun

NextScan == SqlViolatingMessagesReport /\ UNCHANGED run

\* The pattern-scan report of every bounded Bronze content.
SpecScan == InitScan /\ [][NextScan]_vars

\* ------------------------------------------------------------ the pipeline

\* A message of the feed without the key "vin".
WithoutVin(m) == [col \in DOMAIN m \ {"vin"} |-> m[col]]

PipelineMessages ==
    LET full(vin, v, ts) ==
            Message(vin, Str(<<"X">>), Str(<<"M">>), Some(2020), v, Some(0),
                    Some(0), ts, Some("LOCKED"), None, Some("NEUTRAL"))
    IN  {full(Str(<<"A">>), Some(MaxVelocity + 1), 100),
         full(None, Some(MinVelocity), 200),
         WithoutVin(full(None, Some(MinVelocity), 200))}

RECURSIVE SeqsUpTo(_, _)
\* Every sequence of at most n elements of D.
SeqsUpTo(D, n) ==
    IF n = 0 THEN {<<>>}
    ELSE LET shorter == SeqsUpTo(D, n - 1)
         IN  shorter \cup {Append(s, d) : s \in shorter, d \in D}

Init ==
    /\ bronze = EmptyBag
    /\ silver = {}
    /\ gold = {}
    /\ now = 0
    /\ result = NoResult
    /\ run = NoRun

Next ==
    \/ \E data \in SeqsUpTo(PipelineMessages, MaxBatch) :
          WriteRawData(data, DefaultBatch) /\ UNCHANGED run
    \/ ProcessToSilver /\ UNCHANGED run
    \/ Tick /\ UNCHANGED run

\* The storage areas under any sequence of stage calls.
Spec == Init /\ [][Next]_vars

\* ------------------------------------------------------------- API client

\* What requests.get meets: no answer (sent = FALSE), or an answer with a
\* status (ok = FALSE for 4xx / 5xx) and a JSON body, a list or not.
Response(sent, ok, is_list, items) ==
    [sent |-> sent, ok |-> ok, is_list |-> is_list, items |-> items]

\* record['fetch_timestamp'] = fetch_timestamp
WithFetchTimestamp(m, fetch_timestamp) ==
    [col \in DOMAIN m \cup {"fetch_timestamp"} |->
        IF col = "fetch_timestamp" THEN fetch_timestamp ELSE m[col]]

Raised == [raised |-> TRUE, data |-> <<>>]

Returned(data) == [raised |-> FALSE, data |-> data]

FetchVehicleMessages_NoStatusCheck(resp, fetch_timestamp) ==
    IF ~resp.sent THEN Raised
    ELSE IF ~resp.is_list THEN Raised
    ELSE Returned([i \in 1..Len(resp.items) |->
                      WithFetchTimestamp(resp.items[i], fetch_timestamp)])

\* APIClient.fetch_vehicle_messages: requests.get, raise_for_status,
\* response.json(), isinstance(data, list), the fetch timestamp.
FetchVehicleMessages(resp, fetch_timestamp) ==
    IF ~resp.sent THEN Raised
    ELSE IF ~resp.ok THEN Raised
    ELSE IF ~resp.is_list THEN Raised
    ELSE Returned([i \in 1..Len(resp.items) |->
                      WithFetchTimestamp(resp.items[i], fetch_timestamp)])

\* What an entry point keeps of an answer: whether there was one, its
\* status, the kind of its body.
Answer(resp) == Some([sent |-> resp.sent, ok |-> resp.ok, is_list |-> resp.is_list])

\* APIClient.health_check
HealthCheck(resp, fetch_timestamp) ==
    ~FetchVehicleMessages(resp, fetch_timestamp).raised

\* ------------------------------------------------- orchestrator and main

\* Processes started one after the other over the same storage areas.
MaxRuns == 2

\* The n-th process main starts, for --stage full / bronze / silver / gold
\* or for --stats.
NewRun(entry, pc, n) ==
    [pc |-> pc, entry |-> entry, n |-> n, response |-> None,
     raw_data |-> <<>>,
     bronze_file |-> None, silver_file |-> None, vin_report |-> None,
     velocity_report |-> None, dq_report |-> None, stages |-> {},
     status |-> "none", raised |-> FALSE, interrupted |-> FALSE,
     printed |-> None, exit |-> None]

\* The calls of an entry point, in the order of its code; "main" is the
\* return to main.
Steps(entry) ==
    CASE entry = "full" ->
            <<"health", "fetch", "write", "silver", "clean", "vin",
              "fastest", "scan", "main">>
      [] entry = "bronze" -> <<"health", "fetch", "write", "main">>
      [] entry = "silver" -> <<"silver", "main">>
      [] entry = "gold" ->
            <<"latest", "clean", "vin", "fastest", "scan", "main">>
      [] entry = "stats" -> <<"stats", "main">>

Entries == {"full", "bronze", "silver", "gold", "stats"}

\* The statement after the one at r.pc.
NextPc(r) ==
    LET s == Steps(r.entry)
        i == CHOOSE j \in 1..Len(s) : s[j] = r.pc
    IN  s[i + 1]

\* The stage a call belongs to.
StageOf(pc) ==
    CASE pc \in {"health", "fetch", "write"} -> "bronze"
      [] pc = "silver" -> "silver"
      [] pc \in {"latest", "clean", "vin", "fastest", "scan"} -> "gold"
      [] pc = "stats" -> "stats"

\* The last call of its stage in the entry point r runs.
EndsStage(r) ==
    NextPc(r) = "main" \/ StageOf(NextPc(r)) # StageOf(r.pc)

\* A call returned: go on with the next statement; after the last call of
\* a stage its success is recorded, and the entry point returns
\* status = success after its last stage.
RunOn(r) ==
    LET done == IF EndsStage(r) THEN r.stages \cup {StageOf(r.pc)}
                ELSE r.stages
    IN  [r EXCEPT !.pc = NextPc(r),
                  !.stages = done,
                  !.status = IF NextPc(r) = "main" THEN "success" ELSE @]

Fail_Swallow(r) == RunOn(r)

Fail_AlwaysReturn(r) == [r EXCEPT !.pc = "main", !.status = "failed"]

\* The except branch of an entry point: run_full_pipeline sets
\* results["status"] = "failed" and raises; run_bronze_stage,
\* run_silver_stage and run_gold_stage return {status: failed, error}.
Fail(r) ==
    [r EXCEPT !.pc = "main", !.status = "failed",
              !.raised = (r.entry = "full")]

\* A call of a component ended in an exception that is not one of the
\* modelled data conditions (conn.execute raised).
CallFails(op) ==
    /\ result' = Outcome(op, "error", None)
    /\ UNCHANGED <<bronze, silver, gold, now>>

\* The processes started so far.
Started(r) == IF r.pc = "idle" THEN 0 ELSE r.n

\* main starts an entry point.
Start(entry) ==
    /\ run.pc \in {"idle", "exited"}
    /\ Started(run) < MaxRuns
    /\ run' = NewRun(entry, Steps(entry)[1], Started(run) + 1)
    /\ UNCHANGED <<bronze, silver, gold, now, result>>

\* if not self.api_client.health_check(): raise Exception(...)
HealthStep(resp) ==
    /\ run.pc = "health"
    /\ run' = IF HealthCheck(resp, now)
              THEN [RunOn(run) EXCEPT !.response = Answer(resp)]
              ELSE [Fail(run) EXCEPT !.response = Answer(resp)]
    /\ UNCHANGED <<bronze, silver, gold, now, result>>

\* raw_data = self.api_client.fetch_vehicle_messages(amount=batch_size)
FetchStep(resp) ==
    /\ run.pc = "fetch"
    /\ LET fetched == FetchVehicleMessages(resp, now)
       IN  run' = IF fetched.raised
                  THEN [Fail(run) EXCEPT !.response = Answer(resp)]
                  ELSE [RunOn(run) EXCEPT !.response = Answer(resp),
                                          !.raw_data = fetched.data]
    /\ UNCHANGED <<bronze, silver, gold, now, result>>

\* bronze_file = self.bronze_writer.write_raw_data(raw_data, batch_id)
WriteStep ==
    /\ run.pc = "write"
    /\ WriteRawData(run.raw_data, DefaultBatch)
    /\ run' = IF result'.status = "success"
              THEN [RunOn(run) EXCEPT !.bronze_file = result'.path]
              ELSE Fail(run)

\* silver_file = self.silver_processor.process_to_silver()
SilverStep ==
    /\ run.pc = "silver"
    /\ \/ ProcessToSilver
       \/ CallFails("process_to_silver")
    /\ run' = IF result'.status = "success"
              THEN [RunOn(run) EXCEPT !.silver_file = result'.path]
              ELSE Fail(run)

GetLatestSilverFile_Oldest(dir) ==
    LET files == {f \in dir : f.kind = "vehicle_messages_cleaned"}
    IN  IF files = {} THEN None
        ELSE Some((CHOOSE f \in files :
                      \A g \in files : f.mtime <= g.mtime).name)

\* SilverProcessor.get_latest_silver_file: the file of greatest
\* modification time, None if there is no file.
GetLatestSilverFile(dir) ==
    LET files == {f \in dir : f.kind = "vehicle_messages_cleaned"}
    IN  IF files = {} THEN None
        ELSE Some((CHOOSE f \in files :
                      \A g \in files : g.mtime <= f.mtime).name)

LatestStep_CleanFirst ==
    /\ run.pc = "latest"
    /\ gold' = {}
    /\ run' = IF IsNull(GetLatestSilverFile(silver)) THEN Fail(run)
              ELSE [RunOn(run) EXCEPT
                       !.silver_file = GetLatestSilverFile(silver)]
    /\ UNCHANGED <<bronze, silver, now, result>>

\* run_gold_stage: silver_file_path = get_latest_silver_file(); without a
\* file, raise Exception("No silver file found").
LatestStep ==
    /\ run.pc = "latest"
    /\ run' = IF IsNull(GetLatestSilverFile(silver)) THEN Fail(run)
              ELSE [RunOn(run) EXCEPT
                       !.silver_file = GetLatestSilverFile(silver)]
    /\ UNCHANGED <<bronze, silver, gold, now, result>>

CleanStep_Keep ==
    /\ run.pc = "clean"
    /\ run' = RunOn(run)
    /\ UNCHANGED <<bronze, silver, gold, now, result>>

\* shutil.rmtree(gold_dir, ignore_errors=True); gold_dir.mkdir(...)
CleanStep ==
    /\ run.pc = "clean"
    /\ gold' = {}
    /\ run' = RunOn(run)
    /\ UNCHANGED <<bronze, silver, now, result>>

\* vin_report = self.gold_reporter.generate_vin_last_state_report(...)
VinStep ==
    /\ run.pc = "vin"
    /\ \/ GenerateVinLastStateReport(run.silver_file)
       \/ CallFails("generate_vin_last_state_report")
    /\ run' = IF result'.status = "success"
              THEN [RunOn(run) EXCEPT !.vin_report = result'.path]
              ELSE Fail(run)

\* velocity_report = self.gold_reporter.fastest_vehicles_per_hour_report(...)
FastestStep ==
    /\ run.pc = "fastest"
    /\ \/ FastestVehiclesPerHourReport(run.silver_file)
       \/ CallFails("fastest_vehicles_per_hour_report")
    /\ run' = IF result'.status = "success"
              THEN [RunOn(run) EXCEPT !.velocity_report = result'.path]
              ELSE Fail(run)

ScanOutcome_Required(r, res) ==
    IF res.status = "success" THEN [RunOn(r) EXCEPT !.dq_report = res.path]
    ELSE Fail(r)

\* try: dq_report = ...sql_violating_messages_report(...)
\* except Exception: warning; dq_report = None
ScanOutcome(r, res) ==
    IF res.status = "success" THEN [RunOn(r) EXCEPT !.dq_report = res.path]
    ELSE [RunOn(r) EXCEPT !.dq_report = None]

ScanStep ==
    /\ run.pc = "scan"
    /\ \/ SqlViolatingMessagesReport
       \/ CallFails("sql_violating_messages_report")
    /\ run' = ScanOutcome(run, result')

\* stats = orchestrator.get_pipeline_stats(): it returns the statistics or
\* raises.
StatsStep ==
    /\ run.pc = "stats"
    /\ \/ run' = RunOn(run)
       \/ run' = [run EXCEPT !.pc = "main", !.status = "failed",
                             !.raised = TRUE]
    /\ UNCHANGED <<bronze, silver, gold, now, result>>

ExitStatus_AlwaysZero(status) == 0

\* sys.exit(0) if results["status"] == "success", else sys.exit(1)
ExitStatus(status) == IF status = "success" THEN 0 ELSE 1

\* The process ends with the exit status code, having printed what
\* printed says; what it held in memory is gone with it.
Exit(r, printed, code) ==
    [NewRun(r.entry, "exited", r.n) EXCEPT !.printed = printed,
                                      !.exit = Some(code)]

\* main after the entry point: an exception ends in sys.exit(1); --stats
\* prints the statistics and returns; a stage prints its results and exits
\* with the status they give.
MainStep ==
    /\ run.pc = "main"
    /\ run' = IF run.raised THEN Exit(run, None, 1)
              ELSE IF run.entry = "stats" THEN Exit(run, Some("stats"), 0)
              ELSE Exit(run, Some(run.status), ExitStatus(run.status))
    /\ UNCHANGED <<bronze, silver, gold, now, result>>

\* except KeyboardInterrupt: sys.exit(1), while an entry point runs.
Interrupt ==
    /\ run.pc \notin {"idle", "main", "exited"}
    /\ run' = [Exit(run, None, 1) EXCEPT !.interrupted = TRUE]
    /\ UNCHANGED <<bronze, silver, gold, now, result>>

\* ------------------------------------------------- inputs of the runs

\* Messages in one answer of the API to a process.
MaxRunBatch == 1

\* A message as the API sends it: without the fetch timestamp.
ApiMessage(m) == [col \in DOMAIN m \ {"fetch_timestamp"} |-> m[col]]

RunMessages ==
    LET full(vin, ts, door) ==
            Message(vin, Str(<<"X">>), Str(<<"M">>), Some(2020),
                    Some(MinVelocity), Some(0), Some(0), ts, door, None,
                    Some("NEUTRAL"))
    IN  {ApiMessage(full(Str(<<"A">>), 100, Some("LOCKED"))),
         ApiMessage(WithoutVin(full(None, 200, None)))}

\* No answer, an error status, a body that is no list, and the lists of at
\* most MaxRunBatch messages.
ApiResponses ==
    {Response(FALSE, FALSE, FALSE, <<>>),
     Response(TRUE, FALSE, TRUE,
              <<ApiMessage(Message(Str(<<"A">>), Str(<<"X">>), Str(<<"M">>),
                  Some(2020), Some(MinVelocity), Some(0), Some(0), 100,
                  Some("LOCKED"), None, Some("NEUTRAL")))>>),
     Response(TRUE, TRUE, FALSE, <<>>)}
    \cup {Response(TRUE, TRUE, TRUE, items) :
            items \in SeqsUpTo(RunMessages, MaxRunBatch)}

InitRun ==
    /\ bronze = EmptyBag
    /\ silver = {}
    /\ gold = {}
    /\ now = 0
    /\ result = NoResult
    /\ run = NoRun

NextRun ==
    \/ \E entry \in Entries : Start(entry)
    \/ \E resp \in ApiResponses : HealthStep(resp)
    \/ \E resp \in ApiResponses : FetchStep(resp)
    \/ WriteStep
    \/ SilverStep
    \/ LatestStep
    \/ CleanStep
    \/ VinStep
    \/ FastestStep
    \/ ScanStep
    \/ StatsStep
    \/ MainStep
    \/ Interrupt
    \/ Tick /\ UNCHANGED run

\* The processes main runs one after the other over the storage areas.
SpecRun == InitRun /\ [][NextRun]_vars

\* ----------------------------------- the Silver and Gold stage processes

\* Processes started one after the other for --stage silver or gold.
MaxStageRuns == 3

\* main starts a stage; a --config file may set silver_path to a directory
\* of its own, which SilverProcessor.__init__ creates empty.
StartStage(entry, new_silver_path) ==
    /\ run.pc \in {"idle", "exited"}
    /\ Started(run) < MaxStageRuns
    /\ run' = NewRun(entry, Steps(entry)[1], Started(run) + 1)
    /\ silver' = IF new_silver_path THEN {} ELSE silver
    /\ UNCHANGED <<bronze, gold, now, result>>

\* What a Bronze stage of the second 0 left in the Bronze area: nothing
\* when it failed, the records of its messages otherwise.
BronzeWritten ==
    LET fetched(items) ==
            [i \in 1..Len(items) |-> WithFetchTimestamp(items[i], 0)]
    IN  {SeqToBag([i \in 1..Len(items) |->
                      RawRecord(fetched(items)[i], DefaultBatch)]) :
            items \in {d \in SeqsUpTo(RunMessages, MaxRunBatch) :
                          d = <<>> \/ RequiredColumns \subseteq
                                         Columns(fetched(d))}}

InitStage ==
    /\ bronze \in BronzeWritten
    /\ silver = {}
    /\ gold = {}
    /\ now = 0
    /\ result = NoResult
    /\ run = NoRun

NextStage ==
    \/ \E entry \in {"silver", "gold"}, new_silver_path \in BOOLEAN :
          StartStage(entry, new_silver_path)
    \/ SilverStep
    \/ LatestStep
    \/ CleanStep
    \/ VinStep
    \/ FastestStep
    \/ ScanStep
    \/ MainStep
    \/ Interrupt
    \/ Tick /\ UNCHANGED run

\* The Silver and Gold stages run one after the other over a Bronze area
\* that a Bronze stage has left.
SpecStage == InitStage /\ [][NextStage]_vars

\* ------------------------------------------------------ the paged fetch

\* The greatest total_amount a caller asks for.
MaxTotalAmount == 4

\* The greatest batch_size a caller asks for.
MaxBatchSize == 2

\* Messages in one answer of the API to a request of the paged fetch.
MaxPageItems == 3

\* A call of APIClient.fetch_vehicle_messages_paged(total_amount,
\* batch_size): its arguments and its local variables.
PagedCall(total_amount, batch_size) ==
    [pc |-> "paged", total_amount |-> total_amount,
     batch_size |-> batch_size, aggregated |-> <<>>, remaining |-> 0,
     current_batch |-> 0, requests |-> 0]

\* if total_amount <= 0: return []; if batch_size <= 0: batch_size = 1;
\* aggregated = []; remaining = total_amount
PagedEnter ==
    /\ run.pc = "paged"
    /\ run' = IF run.total_amount <= 0 THEN [run EXCEPT !.pc = "returned"]
              ELSE [run EXCEPT
                       !.pc = "loop",
                       !.batch_size = IF @ <= 0 THEN 1 ELSE @,
                       !.remaining = run.total_amount]
    /\ UNCHANGED <<bronze, silver, gold, now, result>>

\* while remaining > 0: current_batch = min(batch_size, remaining) and the
\* request for current_batch messages; return aggregated after the loop.
PagedRequest ==
    /\ run.pc = "loop"
    /\ run' = IF run.remaining > 0
              THEN [run EXCEPT
                       !.pc = "fetch",
                       !.current_batch = Min(run.batch_size, run.remaining),
                       !.requests = @ + 1]
              ELSE [run EXCEPT !.pc = "returned"]
    /\ UNCHANGED <<bronze, silver, gold, now, result>>

PagedAnswer_NoBreak(r, batch) ==
    [r EXCEPT !.pc = "loop",
              !.aggregated = @ \o batch,
              !.remaining = @ - Len(batch)]

\* aggregated.extend(batch); if len(batch) < current_batch: break;
\* remaining -= len(batch)
PagedAnswer(r, batch) ==
    IF Len(batch) < r.current_batch
    THEN [r EXCEPT !.pc = "returned", !.aggregated = @ \o batch]
    ELSE [r EXCEPT !.pc = "loop",
                   !.aggregated = @ \o batch,
                   !.remaining = @ - Len(batch)]

\* batch = self.fetch_vehicle_messages(amount=current_batch): the API
\* answers with a list of its own length, or the call raises and the
\* exception leaves fetch_vehicle_messages_paged.
PagedResponse(resp) ==
    /\ run.pc = "fetch"
    /\ LET fetched == FetchVehicleMessages(resp, now)
       IN  run' = IF fetched.raised THEN [run EXCEPT !.pc = "raised"]
                  ELSE PagedAnswer(run, fetched.data)
    /\ UNCHANGED <<bronze, silver, gold, now, result>>

\* No answer, an error status, a body that is no list, and the lists of at
\* most MaxPageItems messages.
PagedResponses ==
    {Response(FALSE, FALSE, FALSE, <<>>),
     Response(TRUE, FALSE, TRUE, <<>>),
     Response(TRUE, TRUE, FALSE, <<>>)}
    \cup {Response(TRUE, TRUE, TRUE, items) :
            items \in SeqsUpTo(RunMessages, MaxPageItems)}

InitPaged ==
    /\ bronze = EmptyBag
    /\ silver = {}
    /\ gold = {}
    /\ now = 0
    /\ result = NoResult
    /\ run \in {PagedCall(total_amount, batch_size) :
                   total_amount \in -1..MaxTotalAmount,
                   batch_size \in -1..MaxBatchSize}

NextPaged ==
    \/ PagedEnter
    \/ PagedRequest
    \/ \E resp \in PagedResponses : PagedResponse(resp)

\* One call of fetch_vehicle_messages_paged against an API that answers
\* each request as it likes.
SpecPaged == InitPaged /\ [][NextPaged]_vars

\* ------------------------------------------------- claims on the cleaning

FileRows(f) == {f.rows[i] : i \in 1..Len(f.rows)}

SilverRows == UNION {FileRows(f) : f \in silver}

\* A string made of spaces only (the empty string included).
IsBlank(s) == \A i \in 1..Len(s) : s[i] = Space

UsableVin(vin) == ~IsNull(vin) /\ ~IsBlank(Val(vin))

\* The columns the cleaning passes through, with the manufacturer trimmed.
Carried(x, gear) ==
    [vin |-> x.vin, manufacturer |-> Trim(x.manufacturer), year |-> x.year,
     model |-> x.model, latitude |-> x.latitude, longitude |-> x.longitude,
     timestamp |-> x.timestamp, message_datetime |-> x.message_datetime,
     velocity |-> x.velocity,
     front_left_door_state |-> x.front_left_door_state,
     wipers_state |-> x.wipers_state, gear |-> gear, batch_id |-> x.batch_id]

CarriedOfRaw(r) == Carried(r, r.gear_position)

CarriedOfCleaned(c) == Carried(c, c.gear_position_original)

UsableRaw(r) == UsableVin(r.vin)

\* The Bronze rows with a usable vin, as a bag of their carried columns.
UsableBronze ==
    SeqToBag(MapSeq(SelectSeq(BagToSeq(bronze), UsableRaw), CarriedOfRaw))

VelocityInRange(v) ==
    ~IsNull(v) /\ ~(Val(v) < MinVelocity) /\ ~(Val(v) > MaxVelocity)

CoordinatesInRange(lat, lon) ==
    /\ ~IsNull(lat) /\ ~IsNull(lon)
    /\ ~(Val(lat) < -MaxLatitude) /\ ~(Val(lat) > MaxLatitude)
    /\ ~(Val(lon) < -MaxLongitude) /\ ~(Val(lon) > MaxLongitude)

\* C1: every row of a cleaned snapshot has a vin that is neither null nor
\* blank (empty or spaces only).
C1_CleanedVinUsable == \A c \in SilverRows : UsableVin(c.vin)

\* C1 witness: a snapshot with a row was written from a Bronze area that
\* also held a row whose vin is a single space.
C1_Witness ==
    /\ \E f \in silver : f.rows # <<>>
    /\ \E r \in BagToSet(bronze) : r.vin = Str(<<Space>>)

\* C2: a cleaned snapshot holds exactly the Bronze rows with a usable vin,
\* each as often as Bronze holds it; a row whose velocity or position is
\* null or out of range is kept, with its flag false.
C2_FlagNotDrop ==
    \A f \in silver :
        /\ SeqToBag(MapSeq(f.rows, CarriedOfCleaned)) = UsableBronze
        /\ \A c \in FileRows(f) :
              /\ ~VelocityInRange(c.velocity) => c.has_valid_velocity = FALSE
              /\ ~CoordinatesInRange(c.latitude, c.longitude)
                    => c.has_valid_coordinates = FALSE

\* C2 witness: a snapshot keeps a row whose latitude is above 90 and whose
\* velocity is out of range, while the row without vin that Bronze holds
\* is not in it.
C2_Witness ==
    \E f \in silver :
        /\ \E c \in FileRows(f) :
              /\ ~IsNull(c.latitude) /\ Val(c.latitude) > MaxLatitude
              /\ ~VelocityInRange(c.velocity)
              /\ ~c.has_valid_coordinates
        /\ \E r \in BagToSet(bronze) : IsNull(r.vin)
        /\ Len(f.rows) = BagCardinality(bronze) - 1

\* C3: has_valid_velocity is true exactly for a non-null velocity within
\* [0, 500], bounds included.
C3_ValidVelocity ==
    \A c \in SilverRows : c.has_valid_velocity = VelocityInRange(c.velocity)

\* C3 witness: one snapshot holds the velocity 500, flagged valid, and a
\* velocity just above 500, flagged invalid.
C3_Witness ==
    \E f \in silver :
        /\ \E c \in FileRows(f) :
              c.velocity = Some(MaxVelocity) /\ c.has_valid_velocity
        /\ \E c \in FileRows(f) :
              c.velocity = Some(MaxVelocity + 1) /\ ~c.has_valid_velocity

\* C4: has_valid_coordinates is true exactly when latitude and longitude
\* are both non-null, latitude within [-90, 90], longitude within [-180, 180].
C4_ValidCoordinates ==
    \A c \in SilverRows :
        c.has_valid_coordinates = CoordinatesInRange(c.latitude, c.longitude)

\* C4 witness: one snapshot holds longitude -180, flagged valid, and a null
\* latitude, flagged invalid.
C4_Witness ==
    \E f \in silver :
        /\ \E c \in FileRows(f) :
              c.longitude = Some(-MaxLongitude) /\ c.has_valid_coordinates
        /\ \E c \in FileRows(f) :
              IsNull(c.latitude) /\ ~IsNull(c.longitude)
              /\ ~c.has_valid_coordinates

\* C5: with no raw record in the Bronze area, a call of process_to_silver
\* ends in an error and leaves the set of Silver files as it was.
C5_EmptyBronzeFails ==
    [][(bronze = EmptyBag /\ result' # result
            /\ result'.op = "process_to_silver")
          => (result'.status = "error" /\ silver' = silver)]_vars

\* C5 witness: process_to_silver has failed on an empty Bronze area while
\* the snapshot of an earlier run is still in the Silver area.
C5_Witness ==
    /\ bronze = EmptyBag
    /\ result = Outcome("process_to_silver", "error", None)
    /\ silver # {}

\* --------------------------------------------- claims on the VinLastState

VinReports == {g \in gold : g.kind = "vin_last_state"}

\* The cleaned rows of vin v.
RowsOfVin(v) == {c \in SilverRows : c.vin = v}

Latest(S) ==
    {c \in S : \A d \in S :
        DatetimeKey(d.message_datetime) <= DatetimeKey(c.message_datetime)}

\* C6: a VinLastState report has one row per distinct non-null vin of the
\* cleaned set: as many rows as vins, and no vin twice.
C6_OneRowPerVin ==
    \A g \in VinReports :
        /\ Len(g.rows) = Cardinality({c.vin : c \in SilverRows} \ {None})
        /\ \A i, j \in 1..Len(g.rows) :
              i # j => g.rows[i].vin # g.rows[j].vin

\* C6 witness: a report of two vins over three cleaned rows, one vin with
\* both its door state and its wipers state joined in.
C6_Witness ==
    \E g \in VinReports :
        /\ Len(g.rows) = 2
        /\ \E f \in silver : Len(f.rows) = 3
        /\ \E o \in FileRows(g) :
              /\ ~IsNull(o.last_front_left_door_state)
              /\ ~IsNull(o.last_wipers_state)

\* C7: the reported door state (wipers state) of a vin is the one of a row
\* of greatest message_datetime among the rows of the vin where that field
\* is non-null, and null when there is no such row.
C7_LastNonNullState ==
    \A g \in VinReports : \A o \in FileRows(g) :
        LET doors  == {c \in RowsOfVin(o.vin) :
                          ~IsNull(c.front_left_door_state)}
            wipers == {c \in RowsOfVin(o.vin) : ~IsNull(c.wipers_state)}
        IN  /\ o.last_front_left_door_state \in
                  IF doors = {} THEN {None}
                  ELSE {c.front_left_door_state : c \in Latest(doors)}
            /\ o.last_wipers_state \in
                  IF wipers = {} THEN {None}
                  ELSE {c.wipers_state : c \in Latest(wipers)}

\* C7 witness: for the rows ts=100 door null, ts=200 door LOCKED, ts=300
\* door null the report gives the datetime of ts=300 and the door LOCKED.
C7_Witness ==
    /\ {<<c.vin, c.timestamp, c.front_left_door_state>> : c \in SilverRows}
          = {<<Str(<<"A">>), 100, None>>,
             <<Str(<<"A">>), 200, Some("LOCKED")>>,
             <<Str(<<"A">>), 300, None>>}
    /\ \E g \in VinReports : \E o \in FileRows(g) :
          /\ o.last_message_datetime = ToDatetime(300)
          /\ o.last_front_left_door_state = Some("LOCKED")

\* C8: the base fields of a report row all come from one cleaned row of
\* the vin, a row of greatest message_datetime; last_reported_timestamp is
\* the raw timestamp of that row.
C8_BaseFromLatestRow ==
    \A g \in VinReports : \A o \in FileRows(g) :
        \E c \in Latest(RowsOfVin(o.vin)) :
            /\ o.last_message_datetime = c.message_datetime
            /\ o.last_reported_timestamp = c.timestamp
            /\ o.last_latitude = c.latitude
            /\ o.last_longitude = c.longitude
            /\ o.last_velocity = c.velocity
            /\ o.manufacturer = c.manufacturer
            /\ o.model = c.model
            /\ o.year = c.year

\* C8 witness: a vin has an older row and two latest rows that differ in
\* velocity and year; the report row carries the timestamp of the latest.
C8_Witness ==
    \E g \in VinReports : \E o \in FileRows(g) :
        /\ o.last_reported_timestamp = 300
        /\ \E c \in RowsOfVin(o.vin) : c.timestamp = 100
        /\ \E c, d \in Latest(RowsOfVin(o.vin)) :
              c.velocity # d.velocity /\ c.year # d.year

\* C9: the rows of the report are the same each time it is generated from
\* the same cleaned rows, whatever their order: two rows of a vin with
\* equal message_datetime are resolved by a fixed rule.
C9_DeterministicTieBreak ==
    [][\A g \in VinReports : \A h \in VinReports' :
          FileRows(g) = FileRows(h)]_vars

\* ------------------------------------------- claims on the fastest per hour

FastestReports == {g \in gold : g.kind = "fastest_vehicles_per_hour"}

\* The velocities of a sequence of rows, as a bag.
VelocityBag(rows) == SeqToBag([i \in 1..Len(rows) |-> rows[i].velocity])

\* C10: for each (date, hour) bucket the report holds min(10, n) rows, n
\* being the rows of the bucket with a velocity; they are in descending
\* order, none has a null velocity, and no row left out is faster than a
\* row of the report.
C10_TopTenPerBucket ==
    \A g \in FastestReports : \A f \in silver :
        /\ \A i \in 1..Len(g.rows) : ~IsNull(g.rows[i].velocity)
        /\ \A b \in {HourBucket(c) : c \in FileRows(f)} :
              LET input == SelectSeq(f.rows,
                               LAMBDA c : ~IsNull(c.velocity)
                                          /\ HourBucket(c) = b)
                  out   == SelectSeq(g.rows,
                               LAMBDA o : <<o.report_date, o.report_hour>> = b)
                  rest  == VelocityBag(input) (-) VelocityBag(out)
              IN  /\ Len(out) = Min(10, Len(input))
                  /\ \A i, j \in 1..Len(out) :
                        i < j => Val(out[i].velocity) >= Val(out[j].velocity)
                  /\ VelocityBag(out) \sqsubseteq VelocityBag(input)
                  /\ \A x \in BagToSet(rest) : \A i \in 1..Len(out) :
                        Val(x) <= Val(out[i].velocity)

\* C10 witness: a bucket with more than ten rows with a velocity, of three
\* distinct velocities, and a row without velocity: the report holds ten
\* rows of that bucket.
C10_Witness ==
    \E g \in FastestReports : \E f \in silver :
        LET b     == <<0, 0>>
            input == SelectSeq(f.rows, LAMBDA c : HourBucket(c) = b)
            out   == SelectSeq(g.rows,
                         LAMBDA o : <<o.report_date, o.report_hour>> = b)
        IN  /\ Len(SelectSeq(input, HasVelocity)) > 10
            /\ \E i \in 1..Len(input) : IsNull(input[i].velocity)
            /\ Cardinality({input[i].velocity : i \in 1..Len(input)}) = 4
            /\ Len(out) = 10

\* ------------------------------------------------ claims on the pattern scan

ScanReports == {g \in gold : g.kind = "sql_violating_messages"}

\* The string s holds the word w.
Contains(s, w) ==
    \E i \in 0..(Len(s) - Len(w)) : SubSeq(s, i + 1, i + Len(w)) = w

\* What the configured patterns look for: a semicolon, two dashes, a slash
\* (with the backslashes of the two comment patterns repeated zero times)
\* and the five keywords.
SuspiciousWords ==
    {<<";">>, <<"-", "-">>, <<"/">>, <<"D", "R", "O", "P">>,
     <<"S", "E", "L", "E", "C", "T">>, <<"I", "N", "S", "E", "R", "T">>,
     <<"U", "P", "D", "A", "T", "E">>, <<"D", "E", "L", "E", "T", "E">>}

Suspicious(x) == ~IsNull(x) /\ \E w \in SuspiciousWords : Contains(Val(x), w)

SuspiciousRecord(r) ==
    Suspicious(r.vin) \/ Suspicious(r.manufacturer) \/ Suspicious(r.model)

RecordOf(row) == row.record

\* C11: the pattern-scan report holds exactly the raw records of which vin,
\* manufacturer or model matches a configured pattern, each as often as
\* Bronze holds it, and the violating_column of a row names a column of the
\* record that matches.
C11_ScanReportsMatches ==
    \A g \in ScanReports :
        /\ SeqToBag(MapSeq(g.rows, RecordOf))
              = SeqToBag(SelectSeq(BagToSeq(bronze), SuspiciousRecord))
        /\ \A row \in FileRows(g) :
              /\ row.violating_column \in {"vin", "manufacturer", "model"}
              /\ Suspicious(row.record[row.violating_column])

\* C11 witness: the record with manufacturer "DROP TABLE users;" and a
\* clean vin is reported with violating_column = manufacturer, and the
\* clean record next to it in Bronze is not reported.
C11_Witness ==
    \E g \in ScanReports :
        /\ Len(g.rows) = 1
        /\ g.rows[1].record.manufacturer = Str(DropTable)
        /\ g.rows[1].record.vin = Str(<<"A">>)
        /\ g.rows[1].violating_column = "manufacturer"
        /\ BagCardinality(bronze) = 2

\* ---------------------------------------- claims on the orchestrator and main

\* The step a process takes from its statement pc to the return to main.
Returns(pc) == run.pc = pc /\ run'.pc = "main"

\* C12: when sql_violating_messages_report fails after the two other
\* reports were written, run_gold_stage and run_full_pipeline return
\* status success with sql_injection_report None and the paths of the
\* VinLastState and the fastest-per-hour report.
C12_ScanBestEffort ==
    [][(Returns("scan") /\ result'.status = "error")
          => /\ run'.status = "success"
             /\ ~run'.raised
             /\ "gold" \in run'.stages
             /\ IsNull(run'.dq_report)
             /\ \E g \in gold' : g.kind = "vin_last_state"
                                 /\ run'.vin_report = Some(g.name)
             /\ \E g \in gold' : g.kind = "fastest_vehicles_per_hour"
                                 /\ run'.velocity_report = Some(g.name)]_vars

\* C12 witness: a full pipeline run is back in main with status success,
\* both required reports in the Gold area, no scan report there and
\* sql_injection_report None after the scan failed.
C12_Witness ==
    /\ run.pc = "main"
    /\ run.entry = "full"
    /\ run.status = "success"
    /\ result = Outcome("sql_violating_messages_report", "error", None)
    /\ IsNull(run.dq_report)
    /\ {g.kind : g \in gold} = {"vin_last_state", "fastest_vehicles_per_hour"}

\* The Silver file of the path the process holds was cleaned from the
\* Bronze content of now.
ReadsOwnSilverFile ==
    \E f \in silver :
        /\ Some(f.name) = run.silver_file
        /\ SeqToBag(MapSeq(f.rows, CarriedOfCleaned)) = UsableBronze

\* A required call of the process ended in an error in this step.
RequiredCallFails ==
    \/ /\ run.pc \in {"write", "silver", "vin", "fastest"}
       /\ run'.pc \notin {run.pc, "exited"}
       /\ result'.status = "error"
    \/ /\ run.pc \in {"health", "fetch"}
       /\ run'.pc \notin {run.pc, "exited"}
       /\ \/ ~Val(run'.response).sent
          \/ ~Val(run'.response).ok
          \/ ~Val(run'.response).is_list
    \/ /\ run.pc = "latest"
       /\ run'.pc \notin {run.pc, "exited"}
       /\ silver = {}

\* C13: in run_full_pipeline process_to_silver is called only after
\* write_raw_data returned, the Gold stage starts only after
\* process_to_silver returned and works on the file it returned, the
\* snapshot of the Bronze content this run wrote; a call that fails is the
\* last call of the run.
C13_StagesInOrder ==
    /\ [](run.pc # "idle" /\ run.entry = "full" =>
            /\ run.pc = "silver" =>
                  result = Outcome("write_raw_data", "success",
                                   run.bronze_file)
            /\ run.pc = "clean" =>
                  /\ result.op = "process_to_silver"
                  /\ result.status = "success"
                  /\ result.path = run.silver_file
            /\ run.pc \in {"clean", "vin", "fastest", "scan"} =>
                  /\ {"bronze", "silver"} \subseteq run.stages
                  /\ ReadsOwnSilverFile)
    /\ [][(RequiredCallFails /\ run.entry = "full")
            => /\ run'.pc = "main"
               /\ run'.status = "failed"
               /\ silver' = silver
               /\ gold' = gold]_vars

\* C13 witness: the full pipeline is about to write its VinLastState report
\* in the second after the one of its Silver file, while the Silver area
\* holds that file only.
C13_Witness ==
    /\ run.pc = "vin"
    /\ run.entry = "full"
    /\ run.silver_file = Some(0)
    /\ now = 1
    /\ \A f \in silver : f.name = 0 /\ f.rows # <<>>

\* C14: a failing required call makes run_bronze_stage, run_silver_stage
\* and run_gold_stage return status failed without raising, and makes
\* run_full_pipeline raise; the three stage functions never raise.
C14_FailurePropagation ==
    /\ [](run.pc # "idle" /\ run.entry \in {"bronze", "silver", "gold"}
            => ~run.raised)
    /\ [][(RequiredCallFails
            /\ run.entry \in {"full", "bronze", "silver", "gold"})
            => /\ run'.pc = "main"
               /\ run'.status = "failed"
               /\ run'.raised = (run.entry = "full")]_vars

\* C14 witness: run_full_pipeline has raised after its Silver call failed.
C14_Witness ==
    /\ run.pc = "main"
    /\ run.entry = "full"
    /\ run.raised
    /\ result = Outcome("process_to_silver", "error", None)
    /\ "bronze" \in run.stages

\* The stages an entry point has to complete.
RequiredStages(entry) ==
    CASE entry = "full" -> {"bronze", "silver", "gold"}
      [] entry = "stats" -> {"stats"}
      [] OTHER -> {entry}

\* C15: the process exits with 0 when the operation it was asked for
\* completed all its stages and returned to main, and with 1 when a stage
\* failed or the process was interrupted.
C15_ExitStatus ==
    [][(run.pc # "exited" /\ run'.pc = "exited")
          => run'.exit =
                Some(IF run.pc = "main"
                        /\ RequiredStages(run.entry) \subseteq run.stages
                     THEN 0 ELSE 1)]_vars

\* C15 witness: a Gold stage process has exited with status 0.
C15_Witness ==
    /\ run.pc = "exited"
    /\ run.entry = "gold"
    /\ run.exit = Some(0)
    /\ run.printed = Some("success")

\* C16: a full pipeline process that was not interrupted has printed its
\* result summary when it exits, and exits with 0 exactly when the status
\* printed is success.
C16_FullRunPrintsSummary ==
    (run.pc = "exited" /\ run.entry = "full" /\ ~run.interrupted)
        => /\ ~IsNull(run.printed)
           /\ run.exit = Some(IF run.printed = Some("success") THEN 0 ELSE 1)

\* C17: once the Bronze stage of a process has succeeded, the Bronze area
\* holds the records of the data it fetched, each once per message, and
\* nothing else.
C17_BronzeReplaced ==
    (run.pc # "idle" /\ "bronze" \in run.stages)
        => /\ BagCardinality(bronze) = Len(run.raw_data)
           /\ \A r \in BagToSet(bronze) :
                 CopiesIn(r, bronze) =
                    Cardinality({i \in 1..Len(run.raw_data) :
                        RawRecord(run.raw_data[i], DefaultBatch) = r})

\* C17 witness: the Bronze stage has written records fetched in the second
\* second, after an earlier run whose records, fetched in the first
\* second, are in a Silver file.
C17_Witness ==
    /\ run.pc # "idle"
    /\ "bronze" \in run.stages
    /\ \E r \in BagToSet(bronze) : r.fetch_timestamp = 1
    /\ \E f \in silver : \E c \in FileRows(f) : c.fetch_timestamp = 0

\* C18: in run_bronze_stage and run_full_pipeline no step up to the end of
\* the fetch changes the Bronze area, and an answer that is missing, has an
\* error status or is no list ends the run in a failure.
C18_FetchFailureKeepsBronze ==
    [][(run.pc \in {"health", "fetch"} \/ run'.pc = "health")
          => /\ bronze' = bronze
             /\ RequiredCallFails
                   => /\ run'.pc = "main"
                      /\ run'.status = "failed"
                      /\ run'.raised = (run.entry = "full")]_vars

\* C18 witness: run_full_pipeline has raised on an answer with an error
\* status; the Bronze area holds the records of an earlier run.
C18_Witness ==
    /\ run.pc = "main"
    /\ run.entry = "full"
    /\ run.raised
    /\ run.response = Some([sent |-> TRUE, ok |-> FALSE, is_list |-> TRUE])
    /\ bronze # EmptyBag
    /\ run.stages = {}

\* The files of a set written under one of the paths the process holds.
WrittenByRun(dir) ==
    {g \in dir : Some(g.name) \in {run.vin_report, run.velocity_report,
                                  run.dq_report}}

\* C19: a Bronze write that ends in an error adds no record, a Silver
\* transform that ends in an error adds no file, and after a Gold stage
\* that ended in an error the Gold area holds no report this run wrote.
C19_AllOrNothing ==
    /\ [][/\ (run.pc = "write" /\ run'.status = "failed")
                => bronze' \sqsubseteq bronze
          /\ (run.pc = "silver" /\ run'.status = "failed")
                => silver' = silver]_vars
    /\ []((run.pc = "main" /\ run.status = "failed")
            => WrittenByRun(gold) = {})

\* C20: no step removes or replaces a Silver file, and every successful
\* process_to_silver adds one file to the Silver area.
C20_OneSilverFilePerRun ==
    [][/\ silver \subseteq silver'
       /\ (result'.op = "process_to_silver" /\ result'.status = "success"
             /\ <<result, silver>>' # <<result, silver>>)
             => Cardinality(silver') = Cardinality(silver) + 1]_vars

\* ------------------------------------------ claims on the Gold stage input

\* The Silver files of greatest modification time.
LatestSilverFiles(dir) ==
    {f \in dir : /\ f.kind = "vehicle_messages_cleaned"
                 /\ \A g \in dir : g.mtime <= f.mtime}

\* C21: the file a successful Silver run wrote has the greatest
\* modification time of the Silver area; run_gold_stage without a path
\* takes the path of the file of greatest modification time, and its
\* VinLastState and fastest-per-hour reports are computed from the rows of
\* that file.
C21_GoldReadsLatestSilver ==
    /\ [][(run.pc = "silver" /\ run'.pc = "main"
             /\ run'.status = "success")
            => \E f \in LatestSilverFiles(silver') :
                  Some(f.name) = result'.path]_vars
    /\ [][(run.pc = "latest" /\ run'.pc = "clean")
            => \E f \in LatestSilverFiles(silver) :
                  run'.silver_file = Some(f.name)]_vars
    /\ [][(run.pc = "vin" /\ run.entry = "gold" /\ run'.pc = "fastest")
            => \E f \in LatestSilverFiles(silver) :
                  \E g \in gold' :
                     /\ g.kind = "vin_last_state"
                     /\ g.rows \in VinLastStateReports(f.rows, now)]_vars
    /\ [][(run.pc = "fastest" /\ run.entry = "gold" /\ run'.pc = "scan")
            => \E f \in LatestSilverFiles(silver) :
                  \E g \in gold' :
                     /\ g.kind = "fastest_vehicles_per_hour"
                     /\ g.rows \in FastestPerHourReports(f.rows, now)]_vars

\* C21 witness: run_gold_stage has written its VinLastState report from
\* the Silver file of the second second while the Silver area also holds
\* the file of the first second, whose rows differ.
C21_Witness ==
    /\ run.pc = "fastest"
    /\ run.entry = "gold"
    /\ run.silver_file = Some(1)
    /\ \E f, g \in silver : f.name = 0 /\ g.name = 1 /\ f.rows # g.rows
    /\ \E g \in gold : g.kind = "vin_last_state" /\ g.rows # <<>>

\* The reports in a directory that are named by the paths the report calls
\* of the process returned.
ReportsOfRun(dir) ==
    {g \in dir :
        \/ g.kind = "vin_last_state" /\ Some(g.name) = run.vin_report
        \/ /\ g.kind = "fastest_vehicles_per_hour"
           /\ Some(g.name) = run.velocity_report
        \/ g.kind = "sql_violating_messages" /\ Some(g.name) = run.dq_report}

\* The Gold stage of the process has cleaned the Gold directory and is at
\* its report calls or back in main after them.
ReachedReports ==
    /\ run.pc \in {"vin", "fastest", "scan", "main"}
    /\ \/ run.entry = "gold" /\ ~IsNull(run.silver_file)
       \/ run.entry = "full" /\ "silver" \in run.stages

\* C22: from the cleanup of run_gold_stage or run_full_pipeline on, every
\* file of the Gold directory is a report this run wrote: no file of an
\* earlier run is left.
C22_GoldCleanedBeforeRun ==
    ReachedReports => gold \subseteq ReportsOfRun(gold)

\* C22 witness: a Gold stage of the second second is back in main with its
\* reports, after the full pipeline run of an earlier process wrote reports
\* from its Silver file in the first second; the Gold directory holds the
\* reports of the second second only.
C22_Witness ==
    /\ run.pc = "main"
    /\ run.entry = "gold"
    /\ run.n = 2
    /\ run.status = "success"
    /\ run.silver_file = Some(0)
    /\ now = 1
    /\ gold # {}
    /\ \A g \in gold : g.name = 1

\* C25: run_gold_stage that finds no Silver file returns status failed
\* without raising and leaves the Gold directory as it was.
C25_NoSilverKeepsGold ==
    [][(run.pc = "latest" /\ silver = {}
          /\ run'.pc \notin {"latest", "exited"})
          => /\ run'.pc = "main"
             /\ run'.status = "failed"
             /\ ~run'.raised
             /\ run'.stages = {}
             /\ gold' = gold]_vars

\* C25 witness: run_gold_stage has returned status failed over an empty
\* Silver directory while the Gold directory holds the reports of an
\* earlier Gold stage.
C25_Witness ==
    /\ run.pc = "main"
    /\ run.entry = "gold"
    /\ run.status = "failed"
    /\ silver = {}
    /\ {g.kind : g \in gold} =
          {"vin_last_state", "fastest_vehicles_per_hour"}

\* ------------------------------------------------ claims on the paged fetch

\* The records the answer of this step added to aggregated.
BatchOfStep ==
    SubSeq(run'.aggregated, Len(run.aggregated) + 1, Len(run'.aggregated))

\* C23: fetch_vehicle_messages_paged starts with remaining = total_amount,
\* asks each time for min(batch_size, remaining) messages, at least one,
\* goes on to a next request only with a smaller remaining count, and
\* when an answer holds fewer records than were asked for it returns what
\* it gathered, that answer included, without a further request.
C23_PagedRequests ==
    /\ [][(run.pc = "paged" /\ run'.pc = "loop")
            => run'.remaining = run.total_amount]_vars
    /\ [][(run.pc = "loop" /\ run'.pc = "fetch")
            => /\ run'.current_batch = Min(run.batch_size, run.remaining)
               /\ run'.current_batch >= 1
               /\ run'.requests = run.requests + 1]_vars
    /\ [][(run.pc = "fetch" /\ run'.pc # "raised")
            => /\ run'.aggregated = run.aggregated \o BatchOfStep
               /\ run'.requests = run.requests
               /\ IF Len(BatchOfStep) < run.current_batch
                  THEN run'.pc = "returned"
                  ELSE /\ run'.pc = "loop"
                       /\ run'.remaining < run.remaining]_vars
    /\ [][run.pc = "returned" => run'.requests = run.requests]_vars

\* C23 witness: the call for four messages in batches of two has returned
\* three records after two requests: the first answer held two records,
\* the second, asked for min(2, 2) records, held one.
C23_Witness ==
    /\ run.pc = "returned"
    /\ run.total_amount = 4
    /\ run.batch_size = 2
    /\ run.requests = 2
    /\ run.remaining = 2
    /\ run.current_batch = 2
    /\ Len(run.aggregated) = 3

\* C24: fetch_vehicle_messages_paged returns at most total_amount records,
\* and none when total_amount <= 0, whatever the API answers.
C24_TotalAmountIsUpperBound ==
    run.pc = "returned"
        => Len(run.aggregated) <= Max({0, run.total_amount})

====
